---- MODULE Spec2Model ----
(***************************************************************************)
(* Model of vrrp_service.py: the /vrrp resource handler, the configuration *)
(* file it keeps under CONF_DIR and the vrrp.sh script it runs.            *)
(*                                                                         *)
(* The filesystem is modelled with inodes: a path names an inode, an open  *)
(* file keeps its inode whatever happens to the path afterwards, and       *)
(* os.replace moves the inode of the temporary path to the canonical path. *)
(* A file's content is a sequence of blocks; a block is one flush of the   *)
(* writer's buffer.  Every handler is cut at its system calls, so that     *)
(* requests served by different threads interleave there.                  *)
(***************************************************************************)
EXTENDS Integers, Sequences, FiniteSets, TLC

\* Number of requests the server receives in a run.
MaxRequests == 2

\* The server handles every request in a thread of its own (app.run,
\* vrrp_service.py:116); thread p handles the p-th request received.
Procs == 1..MaxRequests

\* An inode for each path and one for each open file.
Inodes == 1..(MaxRequests + 2)

\* ------------------------------------------------------------------------
\* Paths (vrrp_service.py:9-11, 74)

CONF_PATH == "conf.json"

tmp_pathMut == CONF_PATH

tmp_path == "conf.json.tmp"

PathNames == {CONF_PATH, tmp_path}

\* ------------------------------------------------------------------------
\* Request bodies, by name.  Of each one: json, the request is JSON-typed
\* (request.is_json); parses, the body is well-formed JSON; type, keys, text,
\* the parsed value (keys are the keys of an object or the string elements
\* of an array); size, the number of blocks of its serialisation.

Body(j, ok, t, k, x, n) ==
    [json |-> j, parses |-> ok, type |-> t, keys |-> k, text |-> x, size |-> n]

NoBody      == "none"
Malformed   == "{"
ObjVrrp     == "{vrrp, extra}"
ObjOther    == "{other}"
ArrVrrp     == "[vrrp]"
ArrOther    == "[other]"
StrOther    == "vrp"
NumBody     == "5"
NullBody    == "null"

Bodies == {NoBody, Malformed, ObjVrrp, ObjOther, ArrVrrp, ArrOther,
           StrOther, NumBody, NullBody}

\* The request body named b: request.is_json and request.get_json()
\* (vrrp_service.py:66, 69).
BodyOf(b) ==
    CASE b = Malformed  -> Body(TRUE, FALSE, "none", {}, <<>>, 0)
      [] b = ObjVrrp    -> Body(TRUE, TRUE, "object", {"vrrp", "extra"}, <<>>, 2)
      [] b = ObjOther   -> Body(TRUE, TRUE, "object", {"other"}, <<>>, 1)
      [] b = ArrVrrp    -> Body(TRUE, TRUE, "array", {"vrrp"}, <<>>, 1)
      [] b = ArrOther   -> Body(TRUE, TRUE, "array", {"other"}, <<>>, 1)
      [] b = StrOther   -> Body(TRUE, TRUE, "string", {}, <<"v", "r", "p">>, 1)
      [] b = NumBody    -> Body(TRUE, TRUE, "number", {}, <<>>, 1)
      [] b = NullBody   -> Body(TRUE, TRUE, "null", {}, <<>>, 1)
      [] OTHER          -> Body(FALSE, FALSE, "none", {}, <<>>, 0)

\* POST carries every body but ArrVrrp, PUT carries ArrVrrp and two bodies
\* that are turned down.
PostBodies == Bodies \ {ArrVrrp}

PutBodies == {NoBody, ArrVrrp, ObjOther}

Requests ==
    {[method |-> m, body |-> NoBody] : m \in {"GET", "DELETE", "OPTIONS"}}
    \cup {[method |-> "POST", body |-> b] : b \in PostBodies}
    \cup {[method |-> "PUT", body |-> b] : b \in PutBodies}

\* request.is_json (vrrp_service.py:66)
is_jsonMut(b) == TRUE

is_json(b) == BodyOf(b).json

\* The needle of the membership test at vrrp_service.py:70.
Needle == <<"v", "r", "r", "p">>

\* Python's substring test on strings.
IsSubstring(sub, s) ==
    \E i \in 0..(Len(s) - Len(sub)) :
        \A j \in 1..Len(sub) : s[i + j] = sub[j]

\* "vrrp" in payload (vrrp_service.py:70): a key test on an object, an
\* element test on an array, a substring test on a string and a TypeError
\* on a number or on null.
vrrp_inMut(payload) ==
    IF BodyOf(payload).type \in {"object", "array", "string"}
    THEN "True" ELSE "TypeError"

vrrp_in(payload) ==
    LET v == BodyOf(payload)
    IN  CASE v.type \in {"object", "array"} ->
                IF "vrrp" \in v.keys THEN "True" ELSE "False"
          [] v.type = "string" ->
                IF IsSubstring(Needle, v.text) THEN "True" ELSE "False"
          [] OTHER -> "TypeError"

\* ------------------------------------------------------------------------
\* Serialisation (json.dump, vrrp_service.py:77) and parsing (json.load,
\* vrrp_service.py:53).

Block(d, i) == [doc |-> d, part |-> i]

\* What a write past the end of a file leaves in between.
Hole == Block(NoBody, 0)

dump(payload) == [i \in 1..BodyOf(payload).size |-> Block(payload, i)]

\* json.load succeeds on exactly the complete serialisation of one value.
Parses(content) ==
    /\ Len(content) > 0
    /\ BodyOf(content[1].doc).parses
    /\ content = dump(content[1].doc)

load(content) == content[1].doc

\* ------------------------------------------------------------------------
\* The Actuator (run_vrrp_script, vrrp_service.py:18-37).

SubprocessOutcomes ==
    {[kind |-> "exit", rc |-> 0], [kind |-> "exit", rc |-> 1],
     [kind |-> "FileNotFoundError", rc |-> 0], [kind |-> "OSError", rc |-> 0]}

NoResult == [has_returncode |-> FALSE, returncode |-> 0, error |-> "none"]

run_vrrp_script(o) ==
    CASE o.kind = "exit" ->
            [has_returncode |-> TRUE, returncode |-> o.rc, error |-> ""]
      [] o.kind = "FileNotFoundError" ->
            [has_returncode |-> FALSE, returncode |-> 0, error |-> "not found"]
      [] OTHER ->
            [has_returncode |-> FALSE, returncode |-> 0, error |-> "failed to execute"]

\* script_result.get("returncode", 0) != 0 (vrrp_service.py:85-87)
http_codeMut(script_result) == 200

http_codeErr(script_result) ==
    IF script_result.has_returncode /\ script_result.returncode = 0
    THEN 200 ELSE 500

http_code(script_result) ==
    IF (IF script_result.has_returncode THEN script_result.returncode ELSE 0) # 0
    THEN 500 ELSE 200

\* The status of a GET that has read the document (vrrp_service.py:59-62)
\* is 200 whatever the script returned.
get_codeMut(status) == http_code(status)

get_code(status) == 200

\* ------------------------------------------------------------------------
\* Responses.  escaped: the response was produced by the framework from an
\* exception that left vrrp_handler.

Response(st, err, msg, cfg, res, esc) ==
    [status |-> st, error |-> err, message |-> msg, config |-> cfg,
     script |-> res, escaped |-> esc]

NoResponse == Response(0, "", "", NoBody, NoResult, FALSE)

ErrorResponse(st, err) == Response(st, err, "", NoBody, NoResult, FALSE)

Escaped(st, err) == Response(st, err, "", NoBody, NoResult, TRUE)

\* ------------------------------------------------------------------------
\* State

VARIABLES
    proc,       \* proc[p]: the request thread p is handling and where it is
    path,       \* path[n]: the inode at path n, 0 when no file is there
    ino,        \* ino[i]: the content of inode i
    confDir,    \* CONF_DIR exists
    prev        \* what the request answered last reported of the store,
                \* as long as requests follow each other without overlap

vars == <<proc, path, ino, confDir, prev>>

\* os.path.exists (vrrp_service.py:48, 98)
os_path_existsMut(pa, n) == TRUE

os_path_existsNever(pa, n) == FALSE

os_path_exists(pa, n) == pa[n] # 0

\* os.replace (vrrp_service.py:78): the file at src takes the place of the
\* one at dst in one step.
os_replaceMut(pa, src, dst) == pa

os_replace(pa, src, dst) ==
    IF src = dst THEN pa
    ELSE [n \in DOMAIN pa |-> IF n = dst THEN pa[src]
                              ELSE IF n = src THEN 0 ELSE pa[n]]

\* os.remove (vrrp_service.py:100)
os_removeMut(pa, n) == pa

os_remove(pa, n) == [pa EXCEPT ![n] = 0]

\* The file at a path, as a reader sees it.
FileState(pa, io, n) ==
    IF pa[n] = 0 THEN [exists |-> FALSE, content |-> <<>>]
    ELSE [exists |-> TRUE, content |-> io[pa[n]]]

File(n) == FileState(path, ino, n)

Idle ==
    [pc |-> "idle", method |-> "", body |-> NoBody, fd |-> 0, off |-> 0,
     buf |-> <<>>, data |-> NoBody, script_result |-> NoResult,
     resp |-> NoResponse, trace |-> <<>>, seen |-> {}]

NoPrev == [what |-> "none", body |-> NoBody, status |-> 0]

\* Requests have overlapped since the last one that ran alone.
Overlap == [what |-> "overlap", body |-> NoBody, status |-> 0]

\* "saved" with the body after a POST or PUT answered 'config saved',
\* "deleted" after a DELETE answered 200.
Summary(r) ==
    CASE r.resp.message = "config saved" ->
            [what |-> "saved", body |-> r.body, status |-> r.resp.status]
      [] r.method = "DELETE" /\ r.resp.status = 200 ->
            [what |-> "deleted", body |-> NoBody, status |-> 200]
      [] OTHER -> [what |-> "other", body |-> NoBody, status |-> 0]

\* The service starts on a host without CONF_DIR, with an empty CONF_DIR or
\* with the document an earlier run has saved.
Init ==
    /\ proc = [p \in Procs |-> Idle]
    /\ \E start \in {"no directory", "no document", "document"} :
        /\ confDir = (start # "no directory")
        /\ path = [n \in PathNames |->
                     IF n = CONF_PATH /\ start = "document" THEN 1 ELSE 0]
        /\ ino = [i \in Inodes |->
                    IF i = 1 /\ start = "document" THEN dump(ObjVrrp)
                    ELSE <<>>]
    /\ prev = NoPrev

\* A GET in flight sees every state the canonical path goes through until
\* it has read the file.  (A DELETE keeps the state it was received in.)
Observe(r, st) ==
    IF r.pc \in {"get_open", "get_read"} THEN [r EXCEPT !.seen = @ \cup {st}]
    ELSE r

Referenced(i, pr, pa) ==
    \/ \E n \in PathNames : pa[n] = i
    \/ \E q \in Procs : pr[q].fd = i

\* An inode that no path and no open file refers to.
FreeInode == CHOOSE i \in Inodes : ~Referenced(i, proc, path)

\* Inode numbers carry no meaning: they are handed out in the order in
\* which the paths and then the open files refer to them.
Refs(pr, pa) ==
    <<pa[CONF_PATH], pa[tmp_path]>> \o [q \in Procs |-> pr[q].fd]

Number(i, pr, pa) ==
    LET refs == Refs(pr, pa)
        first == CHOOSE k \in 1..Len(refs) :
                    refs[k] = i /\ \A m \in 1..(k - 1) : refs[m] # i
    IN  IF i = 0 THEN 0
        ELSE Cardinality({refs[m] : m \in 1..(first - 1)} \ {0}) + 1

\* One step of thread p: its new state np and the new filesystem.  An inode
\* that is neither linked nor open is released.  A finished request hands
\* its response over (Return) before any other thread goes on.
Commit(p, np, nPath, nIno, nDir) ==
    LET st == FileState(nPath, nIno, CONF_PATH)
        pr == [q \in Procs |-> IF q = p THEN np ELSE Observe(proc[q], st)]
        used == {i \in Inodes : Referenced(i, pr, nPath)}
    IN  /\ \A q \in Procs : proc[q].pc # "done"
        /\ IF Refs(pr, nPath) = Refs(proc, path)
           THEN /\ proc' = pr
                /\ path' = nPath
                /\ ino' = nIno
           ELSE /\ proc' = [q \in Procs |->
                              [pr[q] EXCEPT !.fd = Number(@, pr, nPath)]]
                /\ path' = [n \in PathNames |-> Number(nPath[n], pr, nPath)]
                /\ ino' = [j \in Inodes |->
                             IF \E i \in used : Number(i, pr, nPath) = j
                             THEN nIno[CHOOSE i \in used :
                                          Number(i, pr, nPath) = j]
                             ELSE <<>>]
        /\ confDir' = nDir

\* No other request is being handled.
Alone(p) == \A q \in Procs \ {p} : proc[q].pc \in {"idle", "gone"}

\* A step of p that touches no file.
Local(p, np) == Commit(p, np, path, ino, confDir) /\ UNCHANGED prev

\* The first step of a request: the next one the server receives.
Receive(p, np) ==
    /\ proc[p].pc = "idle"
    /\ \A q \in Procs : q < p => proc[q].pc # "idle"
    /\ prev' = IF ~Alone(p) THEN Overlap
               ELSE IF prev = Overlap THEN NoPrev ELSE prev
    /\ Commit(p, np, path, ino, confDir)

\* A step of p on the filesystem.
Syscall(p, np, nPath, nIno, nDir) ==
    Commit(p, np, nPath, nIno, nDir) /\ UNCHANGED prev

Respond(r, rsp) == [r EXCEPT !.pc = "done", !.resp = rsp, !.fd = 0]

Did(r, op) == [r EXCEPT !.trace = Append(@, op)]

Begin(rq) == [Idle EXCEPT !.method = rq.method, !.body = rq.body]

\* ------------------------------------------------------------------------
\* vrrp_handler, OPTIONS (vrrp_service.py:43-44)

Options(p) ==
    /\ Receive(p, Respond(Begin([method |-> "OPTIONS", body |-> NoBody]),
                        Response(204, "", "", NoBody, NoResult, FALSE)))

\* ------------------------------------------------------------------------
\* vrrp_handler, GET (vrrp_service.py:47-62)

\* os.path.exists(CONF_PATH), lines 48-49
GetExists(p) ==
    /\ proc[p].pc = "idle"
    /\ LET r == Did([Begin([method |-> "GET", body |-> NoBody])
                       EXCEPT !.seen = {File(CONF_PATH)}], "exists")
       IN  IF ~os_path_exists(path, CONF_PATH)
           THEN Receive(p, Respond(r, ErrorResponse(404, "config not found")))
           ELSE Receive(p, [r EXCEPT !.pc = "get_open"])

\* open(CONF_PATH, "r"), line 52; FileNotFoundError is caught at line 54
GetOpen(p) ==
    /\ proc[p].pc = "get_open"
    /\ LET r == proc[p]
       IN  IF path[CONF_PATH] = 0
           THEN Local(p, Respond(Did(r, "open_failed"),
                                 ErrorResponse(500, "failed to read config")))
           ELSE Local(p, Did([r EXCEPT !.pc = "get_read",
                                       !.fd = path[CONF_PATH]], "open"))

\* json.load(f), line 53: read the open file block by block to its end, then
\* parse what was read
GetRead(p) ==
    /\ proc[p].pc = "get_read"
    /\ LET r == proc[p]
           c == ino[r.fd]
           n == Len(r.buf)
       IN  IF n < Len(c)
           THEN Local(p, Did([r EXCEPT !.buf = Append(@, c[n + 1])], "read"))
           ELSE IF Parses(r.buf)
           THEN Local(p, [r EXCEPT !.pc = "get_status", !.fd = 0,
                                   !.data = load(r.buf)])
           ELSE Local(p, Respond(r, ErrorResponse(500, "failed to read config")))

\* run_vrrp_script("status") and the response, lines 57-62
GetStatus(p) ==
    /\ proc[p].pc = "get_status"
    /\ \E o \in SubprocessOutcomes :
        LET r == proc[p]
            status == run_vrrp_script(o)
        IN  Local(p, Respond(Did(r, "status"),
                             Response(get_code(status), "", "", r.data,
                                      status, FALSE)))

\* ------------------------------------------------------------------------
\* vrrp_handler, POST and PUT (vrrp_service.py:65-92)

\* request.is_json, request.get_json() and the membership test, lines 66-71.
\* get_json raises BadRequest on a body that does not parse and the
\* membership test raises TypeError on a number or null: neither is caught.
PostReceive(p) ==
    /\ proc[p].pc = "idle"
    /\ \E rq \in Requests :
        /\ rq.method \in {"POST", "PUT"}
        /\ LET r == Begin(rq)
               payload == rq.body
           IN  CASE ~is_json(payload) ->
                     Receive(p, Respond(r, ErrorResponse(400, "JSON body required")))
                 [] is_json(payload) /\ ~BodyOf(payload).parses ->
                     Receive(p, Respond(r, Escaped(400, "BadRequest")))
                 [] is_json(payload) /\ BodyOf(payload).parses
                        /\ vrrp_in(payload) = "TypeError" ->
                     Receive(p, Respond(r, Escaped(500, "TypeError")))
                 [] is_json(payload) /\ BodyOf(payload).parses
                        /\ vrrp_in(payload) = "False" ->
                     Receive(p, Respond(r, ErrorResponse(400,
                                         "top-level 'vrrp' key missing")))
                 [] OTHER ->
                     Receive(p, [r EXCEPT !.pc = "post_mkdir"])

\* ensure_conf_dir(), line 73 (os.makedirs, lines 14-15): outside the try,
\* so an OSError leaves the handler
PostMkdir(p) ==
    /\ proc[p].pc = "post_mkdir"
    /\ \E ok \in BOOLEAN :
        LET r == Did(proc[p], "makedirs")
        IN  IF ok \/ confDir
            THEN Syscall(p, [r EXCEPT !.pc = "post_open"], path, ino, TRUE)
            ELSE Local(p, Respond(r, Escaped(500, "OSError")))

\* open(tmp_path, "w"), line 76: creates the file or truncates the one that
\* is there
PostOpen(p) ==
    /\ proc[p].pc = "post_open"
    /\ \E ok \in BOOLEAN :
        LET r == proc[p]
            t == path[tmp_path]
            n == IF t = 0 THEN FreeInode ELSE t
        IN  IF ok
            THEN Syscall(p, Did([r EXCEPT !.pc = "post_write", !.fd = n,
                                          !.off = 0], "open"),
                         [path EXCEPT ![tmp_path] = n],
                        [ino EXCEPT ![n] = <<>>], confDir)
            ELSE Local(p, Respond(Did(r, "open_failed"),
                                  ErrorResponse(500, "failed to write config")))

\* json.dump(payload, f, indent=2), line 77: one block of the serialisation
\* goes to the open file at the writer's offset; after the last one the
\* file is closed
PostWrite(p) ==
    /\ proc[p].pc = "post_write"
    /\ \E ok \in BOOLEAN :
        LET r == proc[p]
            c == ino[r.fd]
            k == r.off + 1
            blk == dump(r.body)[k]
            written ==
                IF Len(c) >= k THEN [c EXCEPT ![k] = blk]
                ELSE c \o [i \in 1..(k - 1 - Len(c)) |-> Hole] \o <<blk>>
            last == (k = BodyOf(r.body).size)
            op == IF path[CONF_PATH] = r.fd THEN "write_canonical" ELSE "write"
        IN  IF ok
            THEN Syscall(p, Did([r EXCEPT !.off = k,
                                         !.pc = IF last THEN "post_replace" ELSE @,
                                         !.fd = IF last THEN 0 ELSE @], op),
                        path, [ino EXCEPT ![r.fd] = written], confDir)
            ELSE Local(p, Respond(Did(r, "write_failed"),
                                  ErrorResponse(500, "failed to write config")))

\* os.replace(tmp_path, CONF_PATH), line 78
PostReplace(p) ==
    /\ proc[p].pc = "post_replace"
    /\ \E ok \in BOOLEAN :
        LET r == proc[p]
        IN  IF ok /\ path[tmp_path] # 0
            THEN Syscall(p, Did([r EXCEPT !.pc = "post_create"], "replace"),
                         os_replace(path, tmp_path, CONF_PATH), ino, confDir)
            ELSE Local(p, Respond(Did(r, "replace_failed"),
                                  ErrorResponse(500, "failed to write config")))

\* run_vrrp_script("create") and the response, lines 83-92
PostCreate(p) ==
    /\ proc[p].pc = "post_create"
    /\ \E o \in SubprocessOutcomes :
        LET r == proc[p]
            script_result == run_vrrp_script(o)
        IN  Local(p, Respond(Did([r EXCEPT !.script_result = script_result],
                                 "create"),
                             Response(http_code(script_result), "",
                                      "config saved", NoBody, script_result,
                                      FALSE)))

\* ------------------------------------------------------------------------
\* vrrp_handler, DELETE (vrrp_service.py:95-111)

\* run_vrrp_script("delete"), line 96
DeleteScript(p) ==
    /\ proc[p].pc = "idle"
    /\ \E o \in SubprocessOutcomes :
        Receive(p, Did([Begin([method |-> "DELETE", body |-> NoBody])
                        EXCEPT !.pc = "del_exists",
                               !.seen = {File(CONF_PATH)},
                               !.script_result = run_vrrp_script(o)],
                     "delete"))

\* os.path.exists(CONF_PATH), line 98, and the response of lines 108-111
DeleteExists(p) ==
    /\ proc[p].pc = "del_exists"
    /\ LET r == Did(proc[p], "exists")
       IN  IF ~os_path_exists(path, CONF_PATH)
           THEN Local(p, Respond(r, Response(200, "",
                                   "config deleted (if it existed)", NoBody,
                                   r.script_result, FALSE)))
           ELSE Local(p, [r EXCEPT !.pc = "del_remove"])

\* os.remove(CONF_PATH), lines 99-106, and the response of lines 108-111
DeleteRemove(p) ==
    /\ proc[p].pc = "del_remove"
    /\ \E ok \in BOOLEAN :
        LET r == proc[p]
        IN  IF ok /\ path[CONF_PATH] # 0
            THEN Syscall(p, Respond(Did(r, "remove"),
                                   Response(200, "",
                                     "config deleted (if it existed)", NoBody,
                                     r.script_result, FALSE)),
                         os_remove(path, CONF_PATH), ino, confDir)
            ELSE Local(p, Respond(Did(r, "remove_failed"),
                                  Response(500, "file_error",
                                    "delete attempted, but failed to remove config file",
                                    NoBody, r.script_result, FALSE)))

\* ------------------------------------------------------------------------
\* The response leaves and the thread ends.
Return(p) ==
    /\ proc[p].pc = "done"
    /\ proc' = [proc EXCEPT ![p] = [Idle EXCEPT !.pc = "gone"]]
    /\ prev' = IF Alone(p) /\ prev # Overlap THEN Summary(proc[p])
               ELSE Overlap
    /\ UNCHANGED <<path, ino, confDir>>

Step(p) ==
    \/ Options(p)
    \/ GetExists(p) \/ GetOpen(p) \/ GetRead(p) \/ GetStatus(p)
    \/ PostReceive(p) \/ PostMkdir(p) \/ PostOpen(p) \/ PostWrite(p)
    \/ PostReplace(p) \/ PostCreate(p)
    \/ DeleteScript(p) \/ DeleteExists(p) \/ DeleteRemove(p)
    \/ Return(p)

\* Requests are served by concurrent threads.
Next == \E p \in Procs : Step(p)

Spec == Init /\ [][Next]_vars

IsWrite(r) == r.method \in {"POST", "PUT"}

\* One request at a time: a request is received when no other is being
\* handled.
NextSeq ==
    \E p \in Procs :
        \/ Alone(p) /\ Options(p)
        \/ Alone(p) /\ GetExists(p)
        \/ GetOpen(p) \/ GetRead(p) \/ GetStatus(p)
        \/ Alone(p) /\ PostReceive(p)
        \/ PostMkdir(p) \/ PostOpen(p) \/ PostWrite(p)
        \/ PostReplace(p) \/ PostCreate(p)
        \/ Alone(p) /\ DeleteScript(p)
        \/ DeleteExists(p) \/ DeleteRemove(p)
        \/ Return(p)

SpecSeq == Init /\ [][NextSeq]_vars

\* A POST or PUT is being handled.
Writing(q) == IsWrite(proc[q]) /\ proc[q].pc \notin {"idle", "done", "gone"}

\* GET requests next to POST/PUT requests of which one is in flight at a
\* time; no DELETE.
NextOneWriter ==
    \E p \in Procs :
        \/ Options(p)
        \/ GetExists(p) \/ GetOpen(p) \/ GetRead(p) \/ GetStatus(p)
        \/ (\A q \in Procs : ~Writing(q)) /\ PostReceive(p)
        \/ PostMkdir(p) \/ PostOpen(p) \/ PostWrite(p)
        \/ PostReplace(p) \/ PostCreate(p)
        \/ Return(p)

SpecOneWriter == Init /\ [][NextOneWriter]_vars

\* ------------------------------------------------------------------------
\* Properties

Answered(p, m) == proc[p].pc = "done" /\ proc[p].method \in m

\* The canonical path holds exactly the serialisation of body b.
Stored(b) == File(CONF_PATH) = [exists |-> TRUE, content |-> dump(b)]

\* The body is a JSON object with a top-level key 'vrrp'.
HasVrrpKey(b) ==
    LET v == BodyOf(b)
    IN  v.parses /\ v.type = "object" /\ "vrrp" \in v.keys

\* Thread p takes the step.
Acts(p) == proc'[p].pc # proc[p].pc \/ proc'[p].trace # proc[p].trace

StoreUnchanged ==
    /\ \A n \in PathNames : FileState(path', ino', n) = File(n)
    /\ confDir' = confDir

\* C1: when requests run one at a time, a GET that directly follows a POST
\* or PUT answered 'config saved' returns 200 with config equal to the whole
\* body of that request, whatever the script returned.
C1_RoundTrip ==
    \A p \in Procs :
        Answered(p, {"GET"}) /\ prev.what = "saved" =>
            /\ proc[p].resp.status = 200
            /\ proc[p].resp.config = prev.body

C1_Witness ==
    \E p \in Procs :
        /\ Answered(p, {"GET"}) /\ prev.what = "saved"
        /\ prev.body = ObjVrrp
        /\ proc[p].resp.config = ObjVrrp

\* C2: the canonical path is absent or holds one complete document that is
\* the body of a POST or PUT, under any interleaving of requests.
C2_CanonicalComplete ==
    File(CONF_PATH).exists =>
        /\ Parses(File(CONF_PATH).content)
        /\ \E rq \in Requests :
              IsWrite(rq) /\ load(File(CONF_PATH).content) = rq.body

\* C3: a GET next to one writer answers 404 when it saw no document and
\* otherwise 200 with a complete document that was at the canonical path
\* while the GET ran (the one before the write or the new one), never 500;
\* every state of the canonical path it could see is a complete document.
C3_ReadOldOrNew ==
    \A p \in Procs :
        Answered(p, {"GET"}) =>
            /\ proc[p].resp.status \in {200, 404}
            /\ proc[p].resp.status = 404 =>
                  [exists |-> FALSE, content |-> <<>>] \in proc[p].seen
            /\ proc[p].resp.status = 200 =>
                  /\ BodyOf(proc[p].resp.config).parses
                  /\ [exists |-> TRUE, content |-> dump(proc[p].resp.config)]
                        \in proc[p].seen
            /\ \A st \in proc[p].seen : st.exists => Parses(st.content)

\* A GET returned the old document after the new one was moved into place.
C3_Witness ==
    \E p \in Procs :
        /\ Answered(p, {"GET"})
        /\ proc[p].resp.status = 200
        /\ Cardinality(proc[p].seen) = 2
        /\ File(CONF_PATH).exists
        /\ Parses(File(CONF_PATH).content)
        /\ load(File(CONF_PATH).content) # proc[p].resp.config

\* C4: a POST or PUT answered 'failed to write config' has not moved a file
\* to the canonical path, has not written into the file at the canonical
\* path and has not run the script, under any interleaving.
C4_FailedWriteNotHappened ==
    \A p \in Procs :
        Answered(p, {"POST", "PUT"})
          /\ proc[p].resp.error = "failed to write config" =>
            \A k \in 1..Len(proc[p].trace) :
                proc[p].trace[k] \notin {"replace", "write_canonical", "create"}

\* C5: a POST or PUT whose body has no top-level key 'vrrp' is answered 400
\* and has touched neither the filesystem nor the script.
C5_MissingKeyRejected ==
    \A p \in Procs :
        Answered(p, {"POST", "PUT"}) /\ ~HasVrrpKey(proc[p].body) =>
            /\ proc[p].resp.status = 400
            /\ proc[p].trace = <<>>

C7_SavedThoughScriptFailed ==
    /\ \A p \in Procs :
        Answered(p, {"POST", "PUT"}) /\ proc[p].script_result.has_returncode
          /\ proc[p].script_result.returncode # 0 =>
            /\ proc[p].resp.status = 500
            /\ proc[p].resp.message = "config saved"
            /\ proc[p].resp.script = proc[p].script_result
            /\ Stored(proc[p].body)
    /\ \A p \in Procs :
        Answered(p, {"GET"}) /\ prev.what = "saved" /\ prev.status = 500 =>
            /\ proc[p].resp.status = 200
            /\ proc[p].resp.config = prev.body

C7_Witness ==
    \E p \in Procs :
        /\ Answered(p, {"GET"}) /\ prev.what = "saved" /\ prev.status = 500
        /\ proc[p].resp.config = prev.body

\* C8: the canonical path, when present, holds a JSON document with a
\* top-level key 'vrrp'.
C8_StoredHasVrrpKey ==
    File(CONF_PATH).exists =>
        /\ Parses(File(CONF_PATH).content)
        /\ HasVrrpKey(load(File(CONF_PATH).content))

\* C9: when requests run one at a time, a DELETE received when no document
\* exists is answered 200 'config deleted (if it existed)' and leaves none;
\* a DELETE that follows a DELETE answered 200 is answered 200 too, and the
\* store stays absent in between and after.
C9_DeleteIdempotent ==
    /\ \A p \in Procs :
        Answered(p, {"DELETE"})
          /\ proc[p].seen = {[exists |-> FALSE, content |-> <<>>]} =>
            /\ proc[p].resp.status = 200
            /\ proc[p].resp.message = "config deleted (if it existed)"
            /\ ~File(CONF_PATH).exists
    /\ \A p \in Procs :
        Answered(p, {"DELETE"}) /\ prev.what = "deleted" =>
            /\ proc[p].resp.status = 200
            /\ ~File(CONF_PATH).exists
    /\ (prev.what = "deleted"
          /\ \A q \in Procs : proc[q].pc \in {"idle", "gone"}) =>
            ~File(CONF_PATH).exists

\* A second DELETE in a row was answered, after a document had been stored.
C9_Witness ==
    \E p \in Procs :
        /\ Answered(p, {"DELETE"}) /\ prev.what = "deleted"
        /\ proc[p].resp.status = 200
        /\ confDir

\* C10: a GET received when no document exists is answered 404 'config not
\* found' without a script call; no step of a GET changes the canonical or
\* the temporary path.
C10_GetReadOnly ==
    /\ [](\A p \in Procs :
            Answered(p, {"GET"}) /\ proc[p].resp.status = 404 =>
                /\ proc[p].resp = ErrorResponse(404, "config not found")
                /\ proc[p].trace = <<"exists">>)
    /\ [][\A p \in Procs :
            /\ (Acts(p) /\ proc[p].pc = "idle" /\ proc'[p].method = "GET"
                  /\ ~File(CONF_PATH).exists) =>
                    proc'[p].pc = "done" /\ proc'[p].resp.status = 404
            /\ (Acts(p) /\ proc'[p].method = "GET") => StoreUnchanged]_vars

\* A GET was answered 404 while another request was writing.
C10_Witness ==
    \E p, q \in Procs :
        /\ Answered(p, {"GET"}) /\ proc[p].resp.status = 404
        /\ proc[q].pc = "post_replace"

\* Every result run_vrrp_script can return.
ScriptResults == {run_vrrp_script(o) : o \in SubprocessOutcomes}

\* C11: a GET that has read and parsed the document is answered 200 with
\* that document and the result of the 'status' call, whatever that result
\* is; no GET is answered 200 without both.
C11_GetStatusIndependent ==
    \A p \in Procs :
        Answered(p, {"GET"}) =>
            /\ proc[p].data # NoBody =>
                  /\ proc[p].resp.status = 200
                  /\ proc[p].resp.config = proc[p].data
                  /\ proc[p].resp.script \in ScriptResults
                  /\ proc[p].trace[Len(proc[p].trace)] = "status"
            /\ proc[p].resp.status = 200 => proc[p].data # NoBody

\* A GET was answered 200 with a script result that has a non-zero exit code.
C11_Witness ==
    \E p \in Procs :
        /\ Answered(p, {"GET"})
        /\ proc[p].resp.status = 200
        /\ proc[p].resp.config = ObjVrrp
        /\ proc[p].resp.script.has_returncode
        /\ proc[p].resp.script.returncode # 0

\* The statuses of the documented responses.
DocumentedStatus == {200, 204, 400, 404, 500}

\* C12: every request is answered by vrrp_handler itself with one of the
\* documented responses (204 for OPTIONS, otherwise a JSON body with status
\* 200, 400, 404 or 500); no exception leaves the handler.
C12_NoEscape ==
    \A p \in Procs :
        proc[p].pc = "done" =>
            /\ ~proc[p].resp.escaped
            /\ proc[p].resp.status \in DocumentedStatus
            /\ proc[p].resp.status = 204 <=> proc[p].method = "OPTIONS"

\* C13: whenever no POST or PUT is in flight, no file exists at the
\* temporary path.
C13_NoTmpLeftBehind ==
    (\A q \in Procs : ~Writing(q)) => ~File(tmp_path).exists

\* POST and PUT requests only, in any interleaving.
NextWriters ==
    \E p \in Procs :
        \/ PostReceive(p)
        \/ PostMkdir(p)
        \/ PostOpen(p)
        \/ PostWrite(p)
        \/ PostReplace(p)
        \/ PostCreate(p)
        \/ Return(p)

SpecWriters == Init /\ [][NextWriters]_vars

\* The step is a successful os.replace of request p.
Replaces(p) ==
    /\ proc[p].pc = "post_replace"
    /\ proc'[p].pc = "post_create"

\* C14: with concurrent POST/PUT requests the last successful replace
\* wins: when the replace of a request succeeds, the canonical path holds
\* exactly that request's body, and the canonical path changes at no other
\* step, so that after all have completed it holds the body of the request
\* that replaced last.
C14_LastWriterWins ==
    [][/\ \A p \in Procs :
              Replaces(p) =>
                  FileState(path', ino', CONF_PATH) =
                      [exists |-> TRUE, content |-> dump(proc[p].body)]
       /\ FileState(path', ino', CONF_PATH) # File(CONF_PATH) =>
              \E p \in Procs : Replaces(p)]_vars

\* Request b's os.replace succeeds and moves the temporary file to the
\* canonical path.
MovesTmp(b) ==
    /\ PostReplace(b)
    /\ Replaces(b)
    /\ FileState(path', ino', CONF_PATH) =
           [exists |-> TRUE, content |-> File(tmp_path).content]
    /\ ~FileState(path', ino', tmp_path).exists

\* C15: nothing excludes another writer between the replace of a request
\* and its 'create' call: while request a has replaced and has not yet
\* called the script, a request b that is about to replace can do so, and
\* a calls the script afterwards.
C15_NoMutualExclusion ==
    \A a, b \in Procs :
        /\ a # b
        /\ proc[a].pc = "post_create"
        /\ proc[b].pc = "post_replace"
        /\ File(tmp_path).exists
        /\ \A q \in Procs : proc[q].pc # "done"
        => ENABLED MovesTmp(b)

\* Request a has called 'create' and answered 'config saved' while the
\* canonical path held the body of request b, which replaced after a did.
C15_Witness ==
    \E a, b \in Procs :
        /\ a # b
        /\ Answered(a, {"POST", "PUT"})
        /\ proc[a].resp.message = "config saved"
        /\ proc[b].pc = "post_create"
        /\ proc[b].body # proc[a].body
        /\ Stored(proc[b].body)

\* The number of entries of trace t that are op.
Count(t, op) == Cardinality({i \in 1..Len(t) : t[i] = op})

\* C16: a POST or PUT calls the script with 'create' at most once, and only
\* as the step right after its own successful os.replace; a request answers
\* 'config saved' exactly when it made that call, the result of the call is
\* in the response, and the status is 500 when the result has a non-zero
\* exit code and 200 otherwise, a script that could not be started included.
C16_CreateOnceAfterReplace ==
    \A p \in Procs :
        IsWrite(proc[p]) =>
            LET t == proc[p].trace
                n == Len(t)
            IN  /\ Count(t, "create") <= 1
                /\ Count(t, "replace") <= 1
                /\ \A i \in 1..n :
                       t[i] = "create" => i = n /\ i > 1 /\ t[i - 1] = "replace"
                /\ proc[p].pc = "post_create" <=> n > 0 /\ t[n] = "replace"
                /\ proc[p].pc = "done" =>
                       /\ proc[p].resp.message = "config saved"
                              <=> n > 0 /\ t[n] = "create"
                       /\ proc[p].resp.message = "config saved" =>
                              /\ proc[p].resp.script \in ScriptResults
                              /\ proc[p].resp.script = proc[p].script_result
                              /\ proc[p].resp.status \in {200, 500}
                              /\ proc[p].resp.status = 500 <=>
                                     /\ proc[p].resp.script.has_returncode
                                     /\ proc[p].resp.script.returncode # 0

\* A POST or PUT answered 200 'config saved' with the result of a script
\* that could not be started.
C16_Witness ==
    \E p \in Procs :
        /\ Answered(p, {"POST", "PUT"})
        /\ proc[p].resp.message = "config saved"
        /\ proc[p].resp.status = 200
        /\ ~proc[p].resp.script.has_returncode
        /\ proc[p].resp.script.error # "none"
        /\ Count(proc[p].trace, "create") = 1

\* C17: a DELETE calls the script with 'delete' exactly once, as its first
\* step, before the canonical path is checked or removed; the call leaves
\* the store as it is, so a document that is present is still there while
\* the script runs; and whatever the script returned, a DELETE that then
\* finds the document goes on to remove it.
C17_DeleteScriptFirst ==
    /\ [](\A p \in Procs :
            proc[p].method = "DELETE" =>
                LET t == proc[p].trace
                IN  /\ Len(t) > 0 /\ t[1] = "delete"
                    /\ Count(t, "delete") = 1
                    /\ proc[p].script_result \in ScriptResults
                    /\ proc[p].pc = "done" =>
                           proc[p].resp.script = proc[p].script_result)
    /\ [][\A p \in Procs :
            /\ (proc[p].pc = "idle" /\ proc'[p].method = "DELETE") =>
                   /\ StoreUnchanged
                   /\ proc'[p].trace = <<"delete">>
                   /\ proc'[p].pc = "del_exists"
            /\ (Acts(p) /\ proc[p].pc = "del_exists"
                   /\ File(CONF_PATH).exists) =>
                   /\ StoreUnchanged
                   /\ proc'[p].pc = "del_remove"
            /\ (Acts(p) /\ proc[p].pc = "del_remove") =>
                   /\ proc'[p].pc = "done"
                   /\ proc'[p].trace[Len(proc'[p].trace)]
                          \in {"remove", "remove_failed"}]_vars

\* A DELETE whose script call ended with a non-zero exit code found the
\* document still there and removed it.
C17_Witness ==
    \E p \in Procs :
        /\ Answered(p, {"DELETE"})
        /\ proc[p].script_result.has_returncode
        /\ proc[p].script_result.returncode # 0
        /\ proc[p].seen = {[exists |-> TRUE, content |-> dump(ObjVrrp)]}
        /\ proc[p].trace = <<"delete", "exists", "remove">>

\* C18: a DELETE answers 500 'delete attempted, but failed to remove config
\* file', with the script result, exactly when it found the document and
\* could not remove it, and the document is then still at the canonical
\* path; every other DELETE answers 200; also with concurrent requests.
C18_Delete500OnlyIfStillThere ==
    \A p \in Procs :
        Answered(p, {"DELETE"}) =>
            LET t == proc[p].trace
            IN  /\ proc[p].resp.status \in {200, 500}
                /\ proc[p].resp.script = proc[p].script_result
                /\ proc[p].resp.status = 500 <=> t[Len(t)] = "remove_failed"
                /\ proc[p].resp.status = 500 =>
                       /\ proc[p].resp.message =
                              "delete attempted, but failed to remove config file"
                       /\ File(CONF_PATH).exists

\* C19: when a DELETE has answered 200 no document is at the canonical
\* path; from then on only a successful os.replace of a POST or PUT puts
\* one there; and a GET that follows the DELETE with no such replace in
\* between is answered 404 'config not found'.
C19_RemovedAfterDelete ==
    /\ [](\A p \in Procs :
            /\ (Answered(p, {"DELETE"}) /\ proc[p].resp.status = 200) =>
                   ~File(CONF_PATH).exists
            /\ (Answered(p, {"GET"}) /\ prev.what = "deleted") =>
                   proc[p].resp = ErrorResponse(404, "config not found"))
    /\ []((prev.what = "deleted" /\ \A q \in Procs : Alone(q)) =>
              ~File(CONF_PATH).exists)
    /\ [][(~File(CONF_PATH).exists
             /\ FileState(path', ino', CONF_PATH).exists) =>
              \E p \in Procs : Replaces(p)]_vars

\* The GET that followed a DELETE answered 200 was answered 404.
C19_Witness ==
    \E p \in Procs :
        /\ Answered(p, {"GET"})
        /\ prev.what = "deleted"
        /\ prev.status = 200
        /\ proc[p].resp.status = 404
        /\ confDir

\* GET and DELETE requests only, in any interleaving.
NextGetDelete ==
    \E p \in Procs :
        \/ GetExists(p)
        \/ GetOpen(p)
        \/ GetRead(p)
        \/ GetStatus(p)
        \/ DeleteScript(p)
        \/ DeleteExists(p)
        \/ DeleteRemove(p)
        \/ Return(p)

SpecGetDelete == Init /\ [][NextGetDelete]_vars

\* C20: with GET and DELETE requests running concurrently on a stored valid
\* document, every GET is answered 200 with the complete document or 404
\* 'config not found', never 500.
C20_GetDuringDelete ==
    \A p \in Procs :
        Answered(p, {"GET"}) =>
            \/ /\ proc[p].resp.status = 200
               /\ proc[p].resp.config = ObjVrrp
            \/ proc[p].resp = ErrorResponse(404, "config not found")

====
